---- MODULE Spec2Model ----
(***************************************************************************)
(* Carbon Intensity API (complete_carbon_api.js): the in-memory cache of   *)
(* the remote dataset (carbonData, lastFetched, getCarbonData) and the     *)
(* query pipeline of GET /api/carbon-intensity (filters, sort, pagination).*)
(*                                                                         *)
(* Strings are sequences of one-character strings, so that toLowerCase,    *)
(* trim, split, includes, parseFloat and parseInt are computed and not     *)
(* assumed.  JavaScript values are records [t, s, n]: t is the type tag,   *)
(* s the characters of a string, n the number (or, for an array, the       *)
(* identity of the array object in the heap).                              *)
(***************************************************************************)
EXTENDS Integers, Sequences, FiniteSets, TLC

\* ------------------------------------------------------------ bounds
\* Number of requests (calls of getCarbonData) in one behaviour.
MaxCalls == 3
\* The clock advances by one millisecond at most MaxDrift times within an hour
\* and by one hour (CACHE_DURATION) at most MaxHours times.
MaxDrift == 1
MaxHours == 1

\* ------------------------------------------------------------ constants
\* const CACHE_DURATION = 60 * 60 * 1000
CACHE_DURATION == 3600000

Calls == 1..MaxCalls

\* ------------------------------------------------------------ JS values
Undefined == [t |-> "undefined", s |-> <<>>, n |-> 0]
Null == [t |-> "null", s |-> <<>>, n |-> 0]
NaN == [t |-> "nan", s |-> <<>>, n |-> 0]
Str(chars) == [t |-> "string", s |-> chars, n |-> 0]
Num(k) == [t |-> "number", s |-> <<>>, n |-> k]
\* A reference to the array object number id of the heap.
Arr(id) == [t |-> "array", s |-> <<>>, n |-> id]

\* ToBoolean: undefined, null, NaN, 0 and "" are falsy; an array is truthy.
Truthy(v) ==
    CASE v.t = "string" -> v.s # <<>>
      [] v.t = "number" -> v.n # 0
      [] v.t = "array" -> TRUE
      [] OTHER -> FALSE

\* a || b
Or(a, b) == IF Truthy(a) THEN a ELSE b

\* ------------------------------------------------------------ strings
Uppers == <<"A","B","C","D","E","F","G","H","I","J","K","L","M",
            "N","O","P","Q","R","S","T","U","V","W","X","Y","Z">>
Lowers == <<"a","b","c","d","e","f","g","h","i","j","k","l","m",
            "n","o","p","q","r","s","t","u","v","w","x","y","z">>
Digits == <<"0","1","2","3","4","5","6","7","8","9">>

IndexIn(ch, table) ==
    IF \E i \in 1..Len(table) : table[i] = ch
    THEN CHOOSE i \in 1..Len(table) : table[i] = ch
    ELSE 0

LowerChar(ch) == IF IndexIn(ch, Uppers) > 0 THEN Lowers[IndexIn(ch, Uppers)] ELSE ch
UpperChar(ch) == IF IndexIn(ch, Lowers) > 0 THEN Uppers[IndexIn(ch, Lowers)] ELSE ch

\* String.prototype.toLowerCase / toUpperCase
toLowerCase(str) == [i \in 1..Len(str) |-> LowerChar(str[i])]
toUpperCase(str) == [i \in 1..Len(str) |-> UpperChar(str[i])]

IsSpace(ch) == ch = " "

\* String.prototype.trim
RECURSIVE trimStart(_)
trimStart(str) ==
    IF str # <<>> /\ IsSpace(Head(str)) THEN trimStart(Tail(str)) ELSE str
RECURSIVE trimEnd(_)
trimEnd(str) ==
    IF str # <<>> /\ IsSpace(str[Len(str)])
    THEN trimEnd(SubSeq(str, 1, Len(str) - 1))
    ELSE str
trim(str) == trimEnd(trimStart(str))

\* String.prototype.split(','): the pieces between the commas, empty ones kept.
RECURSIVE splitFrom(_, _, _)
splitFrom(str, i, piece) ==
    IF i > Len(str) THEN <<piece>>
    ELSE IF str[i] = "," THEN <<piece>> \o splitFrom(str, i + 1, <<>>)
    ELSE splitFrom(str, i + 1, Append(piece, str[i]))
split(str) == splitFrom(str, 1, <<>>)

\* String.prototype.includes: sub occurs in str as a contiguous substring.
includes(str, sub) ==
    \E i \in 0..(Len(str) - Len(sub)) : SubSeq(str, i + 1, i + Len(sub)) = sub

\* The value of a run of decimal digits, and the length of the run at the head.
RECURSIVE digitRun(_)
digitRun(str) ==
    IF str # <<>> /\ IndexIn(Head(str), Digits) > 0 THEN 1 + digitRun(Tail(str)) ELSE 0
RECURSIVE digitsValue(_, _)
digitsValue(str, k) ==
    IF k = 0 THEN 0
    ELSE digitsValue(str, k - 1) * 10 + (IndexIn(str[k], Digits) - 1)

\* parseInt(string) / parseFloat(string) on strings without '.', 'e' or a radix
\* prefix (the query values used here): leading white space is skipped, a sign is
\* read, the longest run of digits is the value and what follows it is ignored;
\* no digit at all gives NaN.  parseInt(undefined) is NaN.
parseDecimal(v) ==
    IF v.t # "string" THEN NaN
    ELSE LET str == trimStart(v.s)
             neg == str # <<>> /\ Head(str) = "-"
             signed == str # <<>> /\ (Head(str) = "-" \/ Head(str) = "+")
             body == IF signed THEN Tail(str) ELSE str
             k == digitRun(body)
         IN IF k = 0 THEN NaN
            ELSE Num(IF neg THEN 0 - digitsValue(body, k) ELSE digitsValue(body, k))
parseInt(v) == parseDecimal(v)
parseFloat(v) == parseDecimal(v)
isNaN(v) == v.t = "nan"

\* ------------------------------------------------------------ records
\* One record of the dataset: every field is a JS value, Undefined when absent.
Rec(country, country_code, carbon_intensity) ==
    [country |-> country, country_code |-> country_code, code |-> Undefined,
     carbon_intensity |-> carbon_intensity, intensity |-> Undefined]

Germany == <<"G","e","r","m","a","n","y">>
France == <<"F","r","a","n","c","e">>
DE == <<"D","E">>
FR == <<"F","R">>

\* The dataset of the documented examples: Germany 300, France 60, Germany 280.
ExampleDataset ==
    << Rec(Str(Germany), Str(DE), Num(300)),
       Rec(Str(France), Str(FR), Num(60)),
       Rec(Str(Germany), Str(DE), Num(280)) >>

\* What JSON.parse can give for the response body: an array of records, or a
\* JSON value that is not an array (null stands for these).
\* json is the parsed value, recs the elements when it is an array.
Body(json, recs) == [json |-> json, recs |-> recs]
Bodies ==
    { Body(Arr(0), ExampleDataset),
      Body(Arr(0), << Rec(Str(France), Str(FR), Num(60)) >>),
      Body(Null, <<>>) }

\* ------------------------------------------------------------ state
VARIABLES
    carbonData,   \* let carbonData = null: the cached value (a JS value)
    lastFetched,  \* let lastFetched = null: Null or Num(time of the refreshing call)
    heap,         \* the array objects: heap[id] is the element sequence of array id
    clock,        \* Date.now()
    pc,           \* pc[c]: where request c is
    now,          \* now[c]: the const now of call c of getCarbonData
    ret,          \* ret[c]: the value call c of getCarbonData resolved with
    via,          \* via[c]: the branch call c took: cache, fetch, stale or error
    gen,          \* gen[c]: how many fetches had succeeded when call c started
    res           \* the response sent last

vars == <<carbonData, lastFetched, heap, clock, pc, now, ret, via, gen, res>>

NoResponse ==
    [call |-> 0, status |-> 0, success |-> FALSE, query |-> <<>>, src |-> <<>>,
     filtered |-> <<>>, total |-> 0, page |-> 0, limit |-> 0, pages |-> Null,
     data |-> <<>>]

\* The number of fetches that completed successfully so far.
Successes == Cardinality({c \in Calls : via[c] = "fetch"})

Init ==
    /\ carbonData = Null
    /\ lastFetched = Null
    /\ heap = [c \in Calls |-> <<>>]
    /\ clock = CACHE_DURATION
    /\ pc = [c \in Calls |-> "idle"]
    /\ now = [c \in Calls |-> 0]
    /\ ret = [c \in Calls |-> Undefined]
    /\ via = [c \in Calls |-> "none"]
    /\ gen = [c \in Calls |-> 0]
    /\ res = NoResponse

\* ------------------------------------------------------------ the cache
\* Mutant: the age test with >= in place of >.
needsRefreshAtBoundary(t) ==
    \/ ~Truthy(carbonData)
    \/ ~Truthy(lastFetched)
    \/ (t - lastFetched.n) >= CACHE_DURATION

\* if (!carbonData || !lastFetched || (now - lastFetched) > CACHE_DURATION)
needsRefresh(t) ==
    \/ ~Truthy(carbonData)
    \/ ~Truthy(lastFetched)
    \/ (t - lastFetched.n) > CACHE_DURATION

\* Mutant: the catch block rethrows whatever is cached.
catchRethrowsAlways(cached) == TRUE

\* catch (error) { if (!carbonData) throw error; }
catchRethrows(cached) == ~Truthy(cached)

\* getCarbonData up to its await: now is read, and either the fetch is started
\* or (no await is reached) the call returns carbonData at once.
\* Requests are numbered in the order they arrive.
getCarbonData(c) ==
    /\ pc[c] = "idle"
    /\ \A d \in Calls : d < c => pc[d] # "idle"
    /\ now' = [now EXCEPT ![c] = clock]
    /\ gen' = [gen EXCEPT ![c] = Successes]
    /\ IF needsRefresh(clock)
       THEN /\ pc' = [pc EXCEPT ![c] = "fetching"]
            /\ UNCHANGED <<ret, via>>
       ELSE /\ pc' = [pc EXCEPT ![c] = "returned"]
            /\ ret' = [ret EXCEPT ![c] = carbonData]
            /\ via' = [via EXCEPT ![c] = "cache"]
    /\ UNCHANGED <<carbonData, lastFetched, heap, clock, res>>

\* fetchCarbonData resolved with JSON.parse(data): carbonData = await ...;
\* lastFetched = now; return carbonData.  A parsed array is a new object.
fetchResolved(c, body) ==
    /\ pc[c] = "fetching"
    /\ LET value == IF body.json.t = "array" THEN Arr(c) ELSE body.json
       IN /\ carbonData' = value
          /\ ret' = [ret EXCEPT ![c] = value]
    /\ heap' = [heap EXCEPT ![c] = body.recs]
    /\ lastFetched' = Num(now[c])
    /\ pc' = [pc EXCEPT ![c] = "returned"]
    /\ via' = [via EXCEPT ![c] = "fetch"]
    /\ UNCHANGED <<clock, now, gen, res>>

\* fetchCarbonData rejected (network error, or JSON.parse threw): the catch
\* block rethrows when nothing is cached and otherwise falls through to
\* return carbonData.
fetchRejected(c) ==
    /\ pc[c] = "fetching"
    /\ IF catchRethrows(carbonData)
       THEN /\ pc' = [pc EXCEPT ![c] = "threw"]
            /\ via' = [via EXCEPT ![c] = "error"]
            /\ UNCHANGED ret
       ELSE /\ pc' = [pc EXCEPT ![c] = "returned"]
            /\ via' = [via EXCEPT ![c] = "stale"]
            /\ ret' = [ret EXCEPT ![c] = carbonData]
    /\ UNCHANGED <<carbonData, lastFetched, heap, clock, now, gen, res>>

\* ------------------------------------------------------------ the query
\* req.query: every parameter is Undefined (absent) or a string.
Query(country, country_code, min_intensity, max_intensity, search, sort, order, page, limit) ==
    [country |-> country, country_code |-> country_code,
     min_intensity |-> min_intensity, max_intensity |-> max_intensity,
     search |-> search, sort |-> sort, order |-> order, page |-> page, limit |-> limit]

\* A local array of the handler: ref is the heap object it is (0: an array the
\* handler created, which nothing else refers to), elems its elements.
Local(ref, elems) == [ref |-> ref, elems |-> elems]

\* Mutant: filteredData = data, the cached array itself.
spreadAlias(data) == Local(data.n, heap[data.n])

\* let filteredData = [...data]: a new array with the elements of data.
spread(data) == Local(0, heap[data.n])

\* req.query.country.split(',').map(c => c.trim().toLowerCase())
countryTokens(q) ==
    LET parts == split(q.country.s)
    IN [i \in 1..Len(parts) |-> toLowerCase(trim(parts[i]))]

\* countries.some(country => item.country && item.country.toLowerCase().includes(country))
passCountry(item, q) ==
    LET countries == countryTokens(q)
    IN \E i \in 1..Len(countries) :
          Truthy(item.country) /\ includes(toLowerCase(item.country.s), countries[i])

\* req.query.country_code.split(',').map(c => c.trim().toUpperCase())
codeTokens(q) ==
    LET parts == split(q.country_code.s)
    IN [i \in 1..Len(parts) |-> toUpperCase(trim(parts[i]))]

\* codes.includes(item.country_code || item.code)
passCode(item, q) ==
    LET codes == codeTokens(q)
        value == Or(item.country_code, item.code)
    IN value.t = "string" /\ \E i \in 1..Len(codes) : codes[i] = value.s

\* (item.carbon_intensity || item.intensity || 0)
itemIntensity(item) == Or(Or(item.carbon_intensity, item.intensity), Num(0))

\* (item.carbon_intensity || item.intensity || 0) >= minIntensity
passMin(item, q) == itemIntensity(item).n >= parseFloat(q.min_intensity).n

\* Mutant: the maximum is exclusive.
passMaxStrict(item, q) == itemIntensity(item).n < parseFloat(q.max_intensity).n

\* (item.carbon_intensity || item.intensity || 0) <= maxIntensity
passMax(item, q) == itemIntensity(item).n <= parseFloat(q.max_intensity).n

\* item.country && item.country.toLowerCase().includes(searchTerm)
passSearch(item, q) ==
    Truthy(item.country) /\ includes(toLowerCase(item.country.s), toLowerCase(q.search.s))

\* The conditions under which each filter block runs.
countryActive(q) == Truthy(q.country)
codeActive(q) == Truthy(q.country_code)
minActive(q) == Truthy(q.min_intensity) /\ ~isNaN(parseFloat(q.min_intensity))
maxActive(q) == Truthy(q.max_intensity) /\ ~isNaN(parseFloat(q.max_intensity))
searchActive(q) == Truthy(q.search)

\* The five filter blocks: filteredData = filteredData.filter(...), a new array.
filterCountry(filteredData, q) ==
    IF countryActive(q)
    THEN Local(0, SelectSeq(filteredData.elems, LAMBDA item : passCountry(item, q)))
    ELSE filteredData
filterCode(filteredData, q) ==
    IF codeActive(q)
    THEN Local(0, SelectSeq(filteredData.elems, LAMBDA item : passCode(item, q)))
    ELSE filteredData
filterMin(filteredData, q) ==
    IF minActive(q)
    THEN Local(0, SelectSeq(filteredData.elems, LAMBDA item : passMin(item, q)))
    ELSE filteredData
filterMax(filteredData, q) ==
    IF maxActive(q)
    THEN Local(0, SelectSeq(filteredData.elems, LAMBDA item : passMax(item, q)))
    ELSE filteredData
filterSearch(filteredData, q) ==
    IF searchActive(q)
    THEN Local(0, SelectSeq(filteredData.elems, LAMBDA item : passSearch(item, q)))
    ELSE filteredData

\* Mutant: the max_intensity block is missing.
filterBlockNoMax(k, filteredData, q) ==
    CASE k = 1 -> filterCountry(filteredData, q)
      [] k = 2 -> filterCode(filteredData, q)
      [] k = 3 -> filterMin(filteredData, q)
      [] k = 4 -> filteredData
      [] k = 5 -> filterSearch(filteredData, q)

\* Filter block number k of the handler, in the order of the source text.
filterBlock(k, filteredData, q) ==
    CASE k = 1 -> filterCountry(filteredData, q)
      [] k = 2 -> filterCode(filteredData, q)
      [] k = 3 -> filterMin(filteredData, q)
      [] k = 4 -> filterMax(filteredData, q)
      [] k = 5 -> filterSearch(filteredData, q)

\* The filter blocks run one after the other, in the given order.
RECURSIVE runFilters(_, _, _)
runFilters(order, filteredData, q) ==
    IF order = <<>> THEN filteredData
    ELSE runFilters(Tail(order), filterBlock(Head(order), filteredData, q), q)

\* The order of the blocks in the handler.
FilterOrder == <<1, 2, 3, 4, 5>>
applyFilters(filteredData, q) == runFilters(FilterOrder, filteredData, q)

\* ------------------------------------------------------------ sort
\* a[sortField]: the record's own fields; any other name reads undefined.
fieldOf(item, name) ==
    CASE name = <<"c","o","u","n","t","r","y">> -> item.country
      [] name = <<"c","o","u","n","t","r","y","_","c","o","d","e">> -> item.country_code
      [] name = <<"c","o","d","e">> -> item.code
      [] name = <<"c","a","r","b","o","n","_","i","n","t","e","n","s","i","t","y">> ->
            item.carbon_intensity
      [] name = <<"i","n","t","e","n","s","i","t","y">> -> item.intensity
      [] OTHER -> Undefined

\* a[sortField] || a.carbon_intensity || a.intensity || 0
sortKey(item, sortField) ==
    Or(Or(Or(fieldOf(item, sortField), item.carbon_intensity), item.intensity), Num(0))

\* String.prototype.localeCompare on letters: alphabetical without regard to
\* case, a prefix before the longer string, and on a tie lower case first.
RECURSIVE compareRanks(_, _)
compareRanks(a, b) ==
    IF a = <<>> /\ b = <<>> THEN 0
    ELSE IF a = <<>> THEN 0 - 1
    ELSE IF b = <<>> THEN 1
    ELSE IF Head(a) < Head(b) THEN 0 - 1
    ELSE IF Head(a) > Head(b) THEN 1
    ELSE compareRanks(Tail(a), Tail(b))
letterRanks(str) == [i \in 1..Len(str) |-> IndexIn(LowerChar(str[i]), Lowers)]
caseRanks(str) == [i \in 1..Len(str) |-> IF IndexIn(str[i], Uppers) > 0 THEN 1 ELSE 0]
localeCompare(a, b) ==
    IF compareRanks(letterRanks(a), letterRanks(b)) # 0
    THEN compareRanks(letterRanks(a), letterRanks(b))
    ELSE compareRanks(caseRanks(a), caseRanks(b))

\* The comparator of filteredData.sort, for two keys of the same type:
\* aVal.localeCompare(bVal) * sortOrder, or (aVal - bVal) * sortOrder.
compareKeys(aVal, bVal, sortOrder) ==
    IF aVal.t = "string"
    THEN localeCompare(aVal.s, bVal.s) * sortOrder
    ELSE (aVal.n - bVal.n) * sortOrder

\* const sortOrder = req.query.order === 'desc' ? -1 : 1
sortOrderOf(q) == IF q.order = Str(<<"d","e","s","c">>) THEN 0 - 1 ELSE 1

\* Array.prototype.sort is stable: an element goes after the elements that do
\* not compare greater than it.
RECURSIVE insertSorted(_, _, _, _)
insertSorted(sorted, item, sortField, sortOrder) ==
    IF sorted = <<>> THEN <<item>>
    ELSE LET last == sorted[Len(sorted)]
         IN IF compareKeys(sortKey(last, sortField), sortKey(item, sortField), sortOrder) > 0
            THEN Append(insertSorted(SubSeq(sorted, 1, Len(sorted) - 1),
                                     item, sortField, sortOrder), last)
            ELSE Append(sorted, item)
RECURSIVE stableSort(_, _, _)
stableSort(elems, sortField, sortOrder) ==
    IF elems = <<>> THEN <<>>
    ELSE insertSorted(stableSort(SubSeq(elems, 1, Len(elems) - 1), sortField, sortOrder),
                      elems[Len(elems)], sortField, sortOrder)

\* The rearrangements of a sequence.
rearrangements(elems) ==
    { [i \in 1..Len(elems) |-> elems[f[i]]] :
        f \in { g \in [1..Len(elems) -> 1..Len(elems)] :
                  \A i, j \in 1..Len(elems) : i # j => g[i] # g[j] } }

\* What filteredData.sort(comparator) can leave in the array.  When the keys are
\* all strings or all numbers the comparator is a consistent order and the
\* result is the stable sort; when strings and numbers are mixed the comparator
\* is inconsistent (a number minus a string is NaN) and the order is whatever
\* the engine's algorithm leaves.
sortOutcomes(elems, sortField, sortOrder) ==
    IF \A i, j \in 1..Len(elems) :
          sortKey(elems[i], sortField).t = sortKey(elems[j], sortField).t
    THEN {stableSort(elems, sortField, sortOrder)}
    ELSE rearrangements(elems)

\* ------------------------------------------------------------ pagination
\* const page = parseInt(req.query.page) || 1
pageOf(q) == Or(parseInt(q.page), Num(1)).n

\* const limit = parseInt(req.query.limit) || filteredData.length
limitOf(q, length) == Or(parseInt(q.limit), Num(length)).n

\* Mutant: pages counted from 0.
startIndexFromZero(page, limit) == page * limit

\* const startIndex = (page - 1) * limit
startIndexOf(page, limit) == (page - 1) * limit

\* const endIndex = startIndex + limit
endIndexOf(page, limit) == startIndexOf(page, limit) + limit

\* Array.prototype.slice(start, end): a negative index counts from the end,
\* both are clamped to 0..length, and the elements from start up to end are
\* copied.
relativeIndex(index, length) ==
    IF index < 0
    THEN (IF length + index > 0 THEN length + index ELSE 0)
    ELSE (IF index < length THEN index ELSE length)
slice(elems, start, end) ==
    LET k == relativeIndex(start, Len(elems))
        final == relativeIndex(end, Len(elems))
    IN IF k < final THEN SubSeq(elems, k + 1, final) ELSE <<>>

\* filteredData.slice(startIndex, endIndex)
paginate(elems, page, limit) ==
    slice(elems, startIndexOf(page, limit), endIndexOf(page, limit))

\* pages: Math.ceil(filteredData.length / limit); a division by zero is NaN or
\* Infinity, which res.json writes as null.
pagesOf(length, limit) ==
    IF limit = 0 THEN Null
    ELSE IF limit > 0 THEN Num((length + limit - 1) \div limit)
    ELSE Num(0 - (length \div (0 - limit)))

\* ------------------------------------------------------------ the handler
\* app.get('/api/carbon-intensity'), after await getCarbonData(): no await
\* follows, so the rest of the handler is one step.  The catch block answers
\* 500 when getCarbonData threw, and when [...data] throws because data is
\* not iterable.
Respond(c, q) ==
    /\ pc[c] \in {"returned", "threw"}
    /\ pc' = [pc EXCEPT ![c] = "responded"]
    /\ IF pc[c] = "threw" \/ ret[c].t # "array"
       THEN /\ res' = [NoResponse EXCEPT !.call = c, !.status = 500, !.query = q]
            /\ heap' = heap
       ELSE LET data == ret[c]
                filteredData == applyFilters(spread(data), q)
            IN \E sorted \in (IF Truthy(q.sort)
                              THEN sortOutcomes(filteredData.elems, q.sort.s, sortOrderOf(q))
                              ELSE {filteredData.elems}) :
                 LET page == pageOf(q)
                     limit == limitOf(q, Len(sorted))
                 IN /\ heap' = IF filteredData.ref # 0
                               THEN [heap EXCEPT ![filteredData.ref] = sorted]
                               ELSE heap
                    /\ res' = [call |-> c, status |-> 200, success |-> TRUE,
                               query |-> q, src |-> heap[data.n],
                               filtered |-> sorted, total |-> Len(sorted),
                               page |-> page, limit |-> limit,
                               pages |-> pagesOf(Len(sorted), limit),
                               data |-> paginate(sorted, page, limit)]
    /\ UNCHANGED <<carbonData, lastFetched, clock, now, ret, via, gen>>

\* Time passes: by a millisecond, or by the cache duration.
Tick ==
    \E d \in {1, CACHE_DURATION} :
        /\ d = 1 => (clock % CACHE_DURATION) < MaxDrift
        /\ d = CACHE_DURATION => (clock \div CACHE_DURATION) <= MaxHours
        /\ clock' = clock + d
        /\ UNCHANGED <<carbonData, lastFetched, heap, pc, now, ret, via, gen, res>>

\* ------------------------------------------------------------ inputs
NoQuery ==
    Query(Undefined, Undefined, Undefined, Undefined, Undefined,
          Undefined, Undefined, Undefined, Undefined)
SortCarbonIntensity == Str(<<"c","a","r","b","o","n","_","i","n","t","e","n","s","i","t","y">>)
SortCountry == Str(<<"c","o","u","n","t","r","y">>)
Desc == Str(<<"d","e","s","c">>)

\* country=Germany&sort=carbon_intensity&order=desc
ExampleSortQuery ==
    [NoQuery EXCEPT !.country = Str(Germany), !.sort = SortCarbonIntensity, !.order = Desc]
\* min_intensity=100&max_intensity=300
ExampleRangeQuery ==
    [NoQuery EXCEPT !.min_intensity = Str(<<"1","0","0">>),
                    !.max_intensity = Str(<<"3","0","0">>)]
\* The queries of the requests that follow the first one.
LaterQueries ==
    { NoQuery, [NoQuery EXCEPT !.sort = SortCarbonIntensity], ExampleSortQuery }

\* Queries that vary the five filters.
FilterQueries ==
    { Query(country, country_code, min_intensity, max_intensity, search,
            Undefined, Undefined, Undefined, Undefined) :
        country \in {Undefined, Str(<<"g","e","r","m","a","n","y">>), Str(<<"f","r"," ",","," ","G","E","R">>)},
        country_code \in {Undefined, Str(<<"d","e">>), Str(<<"F","R",",","d","e">>)},
        min_intensity \in {Undefined, Str(<<"1","0","0">>), Str(<<"2","8","0">>),
                           Str(<<"a","b","c">>)},
        max_intensity \in {Undefined, Str(<<"3","0","0">>), Str(<<"6","0">>)},
        search \in {Undefined, Str(<<"a","n">>), Str(<<"M","A","N">>)} }

\* Queries that vary sort, order, page and limit.
PageQueries ==
    { Query(country, Undefined, Undefined, Undefined, Undefined,
            sort, order, page, limit) :
        country \in {Undefined, Str(Germany)},
        sort \in {Undefined, SortCarbonIntensity, SortCountry},
        order \in {Undefined, Desc},
        page \in {Undefined, Str(<<"0">>), Str(<<"1">>), Str(<<"2">>), Str(<<"3">>),
                  Str(<<"4">>), Str(<<"-","1">>), Str(<<"x">>)},
        limit \in {Undefined, Str(<<"0">>), Str(<<"1">>), Str(<<"2">>), Str(<<"3">>),
                   Str(<<"5">>), Str(<<"-","1">>)} }

Queries == FilterQueries \cup PageQueries \cup {ExampleRangeQuery}

\* Datasets for the query pipeline: the documented example, one record, none,
\* and records that use the alternative field names or lack fields.
QueryDatasets ==
    { ExampleDataset,
      << Rec(Str(France), Str(FR), Num(60)) >>,
      <<>>,
      << Rec(Str(Germany), Undefined, Num(0)),
         [Rec(Undefined, Undefined, Undefined) EXCEPT !.code = Str(DE),
                                                      !.intensity = Num(280)],
         Rec(Str(France), Str(FR), Num(100)),
         [Rec(Str(<<"G","e","r","m","a","n","y">>), Str(DE), Num(0))
             EXCEPT !.intensity = Num(300)] >> }

Next ==
    \/ \E c \in Calls : getCarbonData(c)
    \/ \E c \in Calls : \E body \in Bodies : fetchResolved(c, body)
    \/ \E c \in Calls : fetchRejected(c)
    \/ Tick

Spec == Init /\ [][Next]_vars

\* ------------------------------------------------------------ the query alone
\* The handler on a cached dataset: request 1 has its dataset from
\* getCarbonData and is answered for any query of Queries; the later requests
\* arrive one after the other while the cache is fresh.
InitQuery ==
    \E d \in QueryDatasets :
        /\ carbonData = Arr(1)
        /\ lastFetched = Num(CACHE_DURATION)
        /\ heap = [c \in Calls |-> IF c = 1 THEN d ELSE <<>>]
        /\ clock = CACHE_DURATION
        /\ pc = [c \in Calls |-> IF c = 1 THEN "returned" ELSE "idle"]
        /\ now = [c \in Calls |-> IF c = 1 THEN CACHE_DURATION ELSE 0]
        /\ ret = [c \in Calls |-> IF c = 1 THEN Arr(1) ELSE Undefined]
        /\ via = [c \in Calls |-> IF c = 1 THEN "fetch" ELSE "none"]
        /\ gen = [c \in Calls |-> 0]
        /\ res = NoResponse

NextQuery ==
    \/ \E q \in Queries : Respond(1, q)
    \/ \E c \in Calls : (\A d \in Calls : d < c => pc[d] = "responded") /\ getCarbonData(c)
    \/ \E c \in Calls \ {1} : \E q \in LaterQueries : Respond(c, q)

SpecQuery == InitQuery /\ [][NextQuery]_vars

\* ============================================================ the cache claims
\* A dataset (an array) has been cached by some successful fetch.
EverCached == \E c \in Calls : via[c] = "fetch" /\ ret[c].t = "array"

\* Call c's fetch fails in this step.
RejectedStep(c) == pc[c] = "fetching" /\ via'[c] \in {"stale", "error"}

\* Call c of getCarbonData starts in this step.
StartStep(c) == pc[c] = "idle" /\ pc'[c] # "idle"

\* C1: carbonData is absent (null) only if no fetch has ever completed
\* successfully, whatever JSON body the successful fetches parsed; so once a
\* fetch has succeeded the cache is never absent again.
C1_AbsentOnlyBeforeFirstSuccess == carbonData = Null => Successes = 0

\* C2: when the fetch of a refreshing call fails while a fetched dataset is
\* cached, the call returns that cached dataset, does not throw, and
\* carbonData, lastFetched and the cached array are left as they were.
C2_FallbackReturnsCached ==
    [][\A c \in Calls :
         (RejectedStep(c) /\ carbonData.t = "array")
           => /\ pc'[c] = "returned"
              /\ ret'[c] = carbonData
              /\ carbonData' = carbonData
              /\ lastFetched' = lastFetched
              /\ heap' = heap]_vars

\* A call fell back to the cached dataset after its fetch failed.
C2_Witness ==
    \E c \in Calls :
        via[c] = "stale" /\ ret[c].t = "array" /\ ret[c] = carbonData /\ heap[ret[c].n] # <<>>

\* C3: a call of getCarbonData fails exactly when its fetch fails and no
\* dataset has ever been cached: it fails on a failing fetch before any
\* dataset was cached, and never once a dataset has been cached.
C3_FailsIffNeverCached ==
    [][\A c \in Calls :
         /\ RejectedStep(c) => (pc'[c] = "threw" <=> ~EverCached)
         /\ (pc[c] # "threw" /\ pc'[c] = "threw") => RejectedStep(c)]_vars

\* C4: a call that starts while a dataset is cached and now - lastFetched is
\* at most CACHE_DURATION attempts no fetch and returns the cached dataset;
\* two such calls with no successful fetch between them return the identical
\* dataset.
C4_FreshCallsAgree ==
    /\ [][\A c \in Calls :
            (StartStep(c) /\ carbonData.t = "array" /\ lastFetched.t = "number"
               /\ clock - lastFetched.n <= CACHE_DURATION)
              => /\ pc'[c] = "returned"
                 /\ via'[c] = "cache"
                 /\ ret'[c] = carbonData
                 /\ UNCHANGED <<carbonData, lastFetched, heap>>]_vars
    /\ [](\A c1, c2 \in Calls :
            (via[c1] = "cache" /\ via[c2] = "cache" /\ gen[c1] = gen[c2])
              => ret[c1] = ret[c2] /\ ret[c1].t = "array")

\* Two calls served from the cache with no successful fetch between them, the
\* second one exactly CACHE_DURATION after the refresh.
C4_Witness ==
    \E c1, c2 \in Calls :
        /\ c1 < c2 /\ via[c1] = "cache" /\ via[c2] = "cache" /\ gen[c1] = gen[c2]
        /\ now[c1] < now[c2]
        /\ lastFetched.t = "number" /\ now[c2] - lastFetched.n = CACHE_DURATION
        /\ ret[c2] = carbonData

\* C10: lastFetched never decreases, and the cached dataset is never replaced
\* by the result of a fetch that started earlier than the fetch whose result
\* is cached (calls are numbered in the order they start).
C10_RefreshesInOrder ==
    [][/\ lastFetched.t = "number"
            => (lastFetched'.t = "number" /\ lastFetched'.n >= lastFetched.n)
       /\ \A c \in Calls :
            (pc[c] = "fetching" /\ via'[c] = "fetch"
               /\ carbonData.t = "array" /\ carbonData'.t = "array")
              => c > carbonData.n]_vars

\* ============================================================ the query claims
\* The last response is a 200 answer of the handler.
Answered == res.status = 200

\* The positions of the source dataset whose record passes filter block k on
\* its own (every position when the block is not active).
passesAlone(k, src, q) ==
    CASE k = 1 -> {i \in 1..Len(src) : countryActive(q) => passCountry(src[i], q)}
      [] k = 2 -> {i \in 1..Len(src) : codeActive(q) => passCode(src[i], q)}
      [] k = 3 -> {i \in 1..Len(src) : minActive(q) => passMin(src[i], q)}
      [] k = 4 -> {i \in 1..Len(src) : maxActive(q) => passMax(src[i], q)}
      [] k = 5 -> {i \in 1..Len(src) : searchActive(q) => passSearch(src[i], q)}

\* The filter blocks that are active for a query.
activeBlocks(q) ==
    {k \in 1..5 : CASE k = 1 -> countryActive(q) [] k = 2 -> codeActive(q)
                    [] k = 3 -> minActive(q) [] k = 4 -> maxActive(q)
                    [] k = 5 -> searchActive(q)}

\* The intersection of the five sets.
passesAll(src, q) == {i \in 1..Len(src) : \A k \in 1..5 : i \in passesAlone(k, src, q)}

\* The orders in which the five filter blocks can be applied.
FilterOrders ==
    {o \in [1..5 -> 1..5] : \A i, j \in 1..5 : i # j => o[i] # o[j]}

\* C5: the records remaining before pagination are exactly those of the
\* intersection of the sets of records passing each active filter on its own
\* (in source order when no sort is asked for), and applying the filter
\* blocks in any other order leaves the same records.
C5_FiltersIntersect ==
    Answered =>
        LET src == res.src
            q == res.query
            keep == passesAll(src, q)
        IN /\ {res.filtered[i] : i \in 1..Len(res.filtered)} = {src[i] : i \in keep}
           /\ res.total = Cardinality(keep)
           /\ ~Truthy(q.sort) =>
                res.filtered = SelectSeq(src, LAMBDA item : \E i \in keep : src[i] = item)
           /\ (Cardinality(activeBlocks(q)) >= 2 /\ \A c \in Calls \ {1} : pc[c] = "idle") =>
                \A o \in FilterOrders :
                    runFilters(o, Local(0, src), q).elems
                      = runFilters(FilterOrder, Local(0, src), q).elems

\* Three filters are active and keep some records but not all.
C5_Witness ==
    /\ Answered
    /\ countryActive(res.query) /\ maxActive(res.query) /\ searchActive(res.query)
    /\ passesAlone(1, res.src, res.query) # passesAlone(4, res.src, res.query)
    /\ res.total > 0 /\ res.total < Len(res.src)

\* The page number and the limit a request asks for, when the parameters parse.
askedPage == parseInt(res.query.page)
askedLimit == parseInt(res.query.limit)

\* ceil(total / L) for a positive L.
lastPage(total, L) == (total + L - 1) \div L

\* The three parts of the pagination bounds for a response with a positive
\* limit L and an asked page p.
pageBounds(total, L, p) ==
    /\ p = lastPage(total, L) =>
          Len(res.data) = (IF total % L = 0 THEN L ELSE total % L)
    /\ (1 <= p /\ p < lastPage(total, L)) => Len(res.data) = L
    /\ p > lastPage(total, L) =>
          /\ res.data = <<>>
          /\ res.success
          /\ res.total = Cardinality(passesAll(res.src, res.query))

\* C6 as stated: for total records and a positive limit L, page ceil(total/L)
\* holds total mod L records (L when L divides total), every earlier page
\* holds L records, and a page beyond the last is empty with success true and
\* the same total.
C6_PaginationBounds ==
    (Answered /\ askedLimit.t = "number" /\ askedLimit.n > 0 /\ askedPage.t = "number")
      => pageBounds(res.total, askedLimit.n, askedPage.n)

\* C6 amended: the same for a filtered result of at least one record.
C6_PaginationBoundsNonEmpty ==
    (Answered /\ askedLimit.t = "number" /\ askedLimit.n > 0 /\ askedPage.t = "number"
       /\ res.total >= 1)
      => pageBounds(res.total, askedLimit.n, askedPage.n)

\* The last page of three records with limit 2 holds the one remaining record.
C6_Witness ==
    /\ Answered /\ askedLimit = Num(2) /\ askedPage = Num(2)
    /\ res.total = 3 /\ Len(res.data) = 1 /\ res.data[1] = res.filtered[3]

\* C7 as stated: on the example dataset min_intensity=100&max_intensity=300
\* returns only the Germany,300 record.
C7_RangeExampleOnlyGermany300 ==
    (Answered /\ res.src = ExampleDataset /\ res.query = ExampleRangeQuery)
      => res.data = << ExampleDataset[1] >>

\* C7 amended: the example returns the Germany,300 and Germany,280 records
\* (France,60 is below the minimum), and both bounds are inclusive: with only
\* the intensity filters active, a record whose intensity equals min_intensity
\* or max_intensity, and is within the other bound, is kept.
C7_RangeInclusive ==
    /\ (Answered /\ res.src = ExampleDataset /\ res.query = ExampleRangeQuery)
         => res.data = << ExampleDataset[1], ExampleDataset[3] >>
    /\ (Answered /\ activeBlocks(res.query) \subseteq {3, 4}) =>
         \A i \in 1..Len(res.src) :
            LET v == itemIntensity(res.src[i]).n
                lo == parseFloat(res.query.min_intensity).n
                hi == parseFloat(res.query.max_intensity).n
                kept == \E j \in 1..Len(res.filtered) : res.filtered[j] = res.src[i]
            IN /\ (minActive(res.query) /\ v = lo /\ (maxActive(res.query) => v <= hi))
                    => kept
               /\ (maxActive(res.query) /\ v = hi /\ (minActive(res.query) => v >= lo))
                    => kept

\* The example query answered on the example dataset.
C7_Witness ==
    /\ Answered /\ res.src = ExampleDataset /\ res.query = ExampleRangeQuery
    /\ res.total = 2

\* C8: when page and limit parse to integers, data is exactly the records of
\* the filtered sequence at the indices i with startIndex <= i < endIndex and
\* 0 <= i < total; a window outside the sequence gives no record.
C8_SliceWithinWindow ==
    (Answered /\ askedLimit.t = "number" /\ askedPage.t = "number") =>
        LET startIndex == startIndexOf(res.page, res.limit)
            endIndex == endIndexOf(res.page, res.limit)
            window == {i \in 0..(res.total - 1) : startIndex <= i /\ i < endIndex}
            lowest == CHOOSE i \in window : \A j \in window : i <= j
        IN res.data = (IF window = {} THEN <<>>
                       ELSE SubSeq(res.filtered, lowest + 1, lowest + Cardinality(window)))

\* A request is answered in this step.
RespondStep == \E c \in Calls : pc[c] \in {"returned", "threw"} /\ pc'[c] = "responded"

\* C9: answering a request leaves carbonData, its records and their order, and
\* lastFetched as they were, so a later request without filters and without a
\* sort parameter gets the records in the source's order.
C9_HandlerLeavesCache ==
    /\ [][RespondStep =>
            (carbonData' = carbonData /\ heap' = heap /\ lastFetched' = lastFetched)]_vars
    /\ []((Answered /\ activeBlocks(res.query) = {} /\ ~Truthy(res.query.sort))
            => (res.filtered \in QueryDatasets /\ res.filtered = heap[carbonData.n]))

\* A request was answered with the records sorted into another order, and the
\* cached array still has the order it had.
C9_Witness ==
    /\ Answered /\ Truthy(res.query.sort) /\ activeBlocks(res.query) = {}
    /\ res.filtered # res.src
    /\ heap[carbonData.n] = res.src

====
